---- MODULE Spec2Model ----
\* Distributed speech-translation evaluation harness of eval_audio/evaluate_st.py:
\* InferenceSampler shard planning, the per-rank inference loop, the barrier and
\* the four all_gather_object collectives, the rank-0 persist/score block and the
\* final barrier.  Strings that the program splits are sequences of characters.
EXTENDS Integers, Sequences, FiniteSets, TLC

\* ---------------------------------------------------------------- bounds
MaxN == 3
MaxW == 3
MaxB == 2
FairMaxN == 3
FairMaxW == 2
FairMaxB == 2
JsonlMaxN == 2
JsonlMaxW == 2
JsonlMaxB == 2
PlanMaxN == 10
PlanMaxW == 5

\* ---------------------------------------------------------------- state
VARIABLES
    total_size,      \* len(dataset)
    world_size,      \* torch.distributed.get_world_size()
    batch_size,      \* args.batch_size
    dataset,         \* dataset[i+1] = the 'source' tag of item i
    pc,              \* per rank: position in __main__
    error,           \* per rank: the exception that ended the process, or "none"
    local_indices,   \* per rank: InferenceSampler._local_indices as [begin, end)
    pos,             \* per rank: next index the sampler iterator yields
    batches,         \* per rank: the batches the data loader has yielded so far
    gts,             \* per rank: list gts
    rets,            \* per rank: list rets
    sources,         \* per rank: list sources
    audio_paths,     \* per rank: list audio_paths
    coll,            \* per collective call, per rank: entered? and the object passed
    gathered,        \* per rank: the four merged_* lists as all_gather_object filled them
    merged,          \* per rank: the four merged_* lists after chain.from_iterable
    finish_order,    \* ranks in the order they left the loop and entered the barrier
    violations,      \* ranks whose inference call returned a wrong number of predictions
    written,         \* result files on disk, in creation order
    results_dict,    \* rank 0: results grouped by source, in insertion order
    printed          \* rank 0: the printed score lines

vars == <<total_size, world_size, batch_size, dataset, pc, error, local_indices,
          pos, batches, gts, rets, sources, audio_paths, coll, gathered, merged,
          finish_order, violations, written, results_dict, printed>>

\* ---------------------------------------------------------------- strings
Chr_ == "_"

covost_en_de_dev ==
    <<"c","o","v","o","s","t","_","e","n","_","d","e","_","d","e","v">>

covost_en_zh_dev ==
    <<"c","o","v","o","s","t","_","e","n","_","z","h","_","d","e","v">>

\* the tags AudioDatasetModified gives its items
Tags == {covost_en_de_dev, covost_en_zh_dev}

\* segments used to build tags of the form prefix_source_target_split
Prefixes == { <<"c","o","v","o","s","t">>, <<"j","a">> }
Languages == { <<"e","n">>, <<"d","e">>, <<"j","a">>, <<"z","h">>,
               <<"z","h","-","C","N">>, <<"j">> }
Splits == { <<"d","e","v">>, <<"z","h">>, <<"j","a">> }

MakeTag(prefix, src, tgt, split) ==
    prefix \o <<Chr_>> \o src \o <<Chr_>> \o tgt \o <<Chr_>> \o split

FormTags ==
    { MakeTag(p, s, t, sp) : p \in Prefixes, s \in {<<"e","n">>, <<"z","h">>, <<"j","a">>},
                             t \in Languages, sp \in Splits }

\* str.split("_")
RECURSIVE SplitAcc(_, _, _)
SplitAcc(s, parts, cur) ==
    IF s = <<>> THEN Append(parts, cur)
    ELSE IF Head(s) = Chr_ THEN SplitAcc(Tail(s), Append(parts, cur), <<>>)
    ELSE SplitAcc(Tail(s), parts, Append(cur, Head(s)))

split(s) == SplitAcc(s, <<>>, <<>>)

\* source.split("_")[-2] is defined when the split has at least two parts
HasTextLan(source) == Len(split(source)) >= 2

\* the last segment ([-1]) is read instead of the one before it ([-2])
text_lan_last_segment(source) ==
    LET parts == split(source)
        seg == parts[Len(parts)]
    IN  IF seg = <<"j","a">> THEN "ja-mecab"
        ELSE IF seg = <<"z","h">> THEN "zh"
        ELSE "13a"

text_lan(source) ==
    LET parts == split(source)
        seg == parts[Len(parts) - 1]
    IN  IF seg = <<"j","a">> THEN "ja-mecab"
        ELSE IF seg = <<"z","h">> THEN "zh"
        ELSE "13a"

\* ---------------------------------------------------------------- sampler
Min(a, b) == IF a < b THEN a ELSE b

RECURSIVE sum(_)
sum(s) == IF s = <<>> THEN 0 ELSE Head(s) + sum(Tail(s))

\* Python slice s[:k]
Prefix(s, k) == SubSeq(s, 1, Min(k, Len(s)))

\* the remainder is not handed out: every rank gets total div world items
get_local_indices_no_remainder(total, world, rank) ==
    LET shard_size == total \div world
        shard_sizes == [i \in 1..world |-> shard_size]
        begin == sum(Prefix(shard_sizes, rank))
        end == Min(sum(Prefix(shard_sizes, rank + 1)), total)
    IN  [begin |-> begin, end |-> end]

\* the remainder goes to the highest ranks instead of the lowest
get_local_indices_remainder_last(total, world, rank) ==
    LET shard_size == total \div world
        left == total % world
        shard_sizes == [i \in 1..world |-> shard_size + (IF i - 1 >= world - left THEN 1 ELSE 0)]
        begin == sum(Prefix(shard_sizes, rank))
        end == Min(sum(Prefix(shard_sizes, rank + 1)), total)
    IN  [begin |-> begin, end |-> end]

\* begin is computed as rank * shard_size, ignoring the remainder of lower ranks
get_local_indices_overlap(total, world, rank) ==
    LET shard_size == total \div world
        left == total % world
        begin == rank * shard_size
        end == Min(begin + shard_size + (IF rank < left THEN 1 ELSE 0), total)
    IN  [begin |-> begin, end |-> end]

_get_local_indices(total, world, rank) ==
    LET shard_size == total \div world
        left == total % world
        shard_sizes == [i \in 1..world |-> shard_size + (IF i - 1 < left THEN 1 ELSE 0)]
        begin == sum(Prefix(shard_sizes, rank))
        end == Min(sum(Prefix(shard_sizes, rank + 1)), total)
    IN  [begin |-> begin, end |-> end]

Ranks == 0..(world_size - 1)

NoRange == [begin |-> 0, end |-> 0]

\* ---------------------------------------------------------------- collectives
\* 1 = barrier after the loop, 2..5 = all_gather_object of gts, sources, rets,
\* audio_paths, 6 = final barrier
Collectives == 1..6
NotEntered == [in |-> FALSE, obj |-> <<>>]
Entered(obj) == [in |-> TRUE, obj |-> obj]

\* the collective does not wait for anyone
CollectiveNoWait(c) == TRUE

\* the collective does not wait for ranks whose process has ended
CollectiveIgnoresDead(c) == \A r \in Ranks : coll[c][r].in \/ pc[r] = "failed"

\* a rank that contributes an empty list to a gather is not counted as present
CollectiveNeedsItems(c) ==
    \A r \in Ranks : coll[c][r].in /\ (c = 2 => coll[c][r].obj # <<>>)

\* a collective returns once every rank of the group has entered it
CollectiveComplete(c) == \A r \in Ranks : coll[c][r].in

\* the output list is filled in the order the ranks arrived
all_gather_object_arrival(c) == [i \in 1..world_size |-> coll[c][finish_order[i]].obj]

\* all_gather_object: the output list holds rank r's object at position r
all_gather_object(c) == [i \in 1..world_size |-> coll[c][i - 1].obj]

\* the lists are concatenated last list first
RECURSIVE chain_reversed(_)
chain_reversed(lists) ==
    IF lists = <<>> THEN <<>>
    ELSE chain_reversed(Tail(lists)) \o Head(lists)

\* itertools.chain.from_iterable
RECURSIVE chain(_)
chain(lists) == IF lists = <<>> THEN <<>> ELSE Head(lists) \o chain(Tail(lists))

NoMerged == [gts |-> <<>>, sources |-> <<>>, responses |-> <<>>, audio_paths |-> <<>>]

\* ---------------------------------------------------------------- Init
InitRun(n, w, b, ds) ==
    /\ total_size = n
    /\ world_size = w
    /\ batch_size = b
    /\ dataset = ds
    /\ pc = [r \in 0..(w - 1) |-> "init"]
    /\ error = [r \in 0..(w - 1) |-> "none"]
    /\ local_indices = [r \in 0..(w - 1) |-> NoRange]
    /\ pos = [r \in 0..(w - 1) |-> 0]
    /\ batches = [r \in 0..(w - 1) |-> <<>>]
    /\ gts = [r \in 0..(w - 1) |-> <<>>]
    /\ rets = [r \in 0..(w - 1) |-> <<>>]
    /\ sources = [r \in 0..(w - 1) |-> <<>>]
    /\ audio_paths = [r \in 0..(w - 1) |-> <<>>]
    /\ coll = [c \in Collectives |-> [r \in 0..(w - 1) |-> NotEntered]]
    /\ gathered = [r \in 0..(w - 1) |-> NoMerged]
    /\ merged = [r \in 0..(w - 1) |-> NoMerged]
    /\ finish_order = <<>>
    /\ violations = {}
    /\ written = <<>>
    /\ results_dict = <<>>
    /\ printed = <<>>

\* the datasets of n items: all items of one tag (AudioDatasetModified), or the
\* two tags alternating (a jsonl file read by AudioDataset)
Datasets(n) ==
    { [i \in 1..n |-> t] : t \in Tags }
    \cup { [i \in 1..n |-> IF i % 2 = 1 THEN covost_en_de_dev ELSE covost_en_zh_dev] }

Init ==
    \E n \in 0..MaxN, w \in 1..MaxW, b \in 1..MaxB :
        \E ds \in Datasets(n) : InitRun(n, w, b, ds)

\* ---------------------------------------------------------------- the sampler
\* an empty dataset is let through
size_not_negative(size) == size >= 0

\* assert size > 0
size_positive(size) == size > 0

\* InferenceSampler.__init__: assert size > 0, then the rank's index range
InitSampler(w) ==
    /\ pc[w] = "init"
    /\ IF size_positive(total_size)
       THEN /\ local_indices' = [local_indices EXCEPT
                                   ![w] = _get_local_indices(total_size, world_size, w)]
            /\ pos' = [pos EXCEPT ![w] = local_indices'[w].begin]
            /\ pc' = [pc EXCEPT ![w] = "loop"]
            /\ error' = error
       ELSE /\ pc' = [pc EXCEPT ![w] = "failed"]
            /\ error' = [error EXCEPT ![w] = "AssertionError"]
            /\ UNCHANGED <<local_indices, pos>>
    /\ UNCHANGED <<total_size, world_size, batch_size, dataset, gts, rets, sources,
                   audio_paths, coll, gathered, merged, finish_order, violations,
                   written, results_dict, printed, batches>>

\* ---------------------------------------------------------------- the loop
\* the batch is assembled back to front
batch_reversed(w) ==
    LET stop == Min(pos[w] + batch_size, local_indices[w].end)
    IN  [k \in 1..(stop - pos[w]) |-> stop - k]

\* DataLoader(sampler, batch_size, drop_last=False): the next batch of indices
batch(w) ==
    LET stop == Min(pos[w] + batch_size, local_indices[w].end)
    IN  [k \in 1..(stop - pos[w]) |-> pos[w] + k - 1]

\* model.generate + batch_decode, an opaque collaborator: the prediction of item i
\* is written i; the list may come back one short or one long (-1 is a
\* prediction that belongs to no item)
infer(b) == {b, SubSeq(b, 1, Len(b) - 1), Append(b, -1)}

\* one iteration of the for loop over data_loader
LoopBody(w) ==
    /\ pc[w] = "loop"
    /\ pos[w] < local_indices[w].end
    /\ LET b == batch(w)
       IN  \E output \in infer(b) :
             /\ gts' = [gts EXCEPT ![w] = @ \o b]
             /\ rets' = [rets EXCEPT ![w] = @ \o output]
             /\ sources' = [sources EXCEPT ![w] = @ \o [k \in 1..Len(b) |-> dataset[b[k] + 1]]]
             /\ audio_paths' = [audio_paths EXCEPT ![w] = @ \o b]
             /\ pos' = [pos EXCEPT ![w] = @ + Len(b)]
             /\ batches' = [batches EXCEPT ![w] = Append(@, b)]
             /\ violations' = IF Len(output) # Len(b) THEN violations \cup {w} ELSE violations
    /\ UNCHANGED <<total_size, world_size, batch_size, dataset, pc, error,
                   local_indices, coll, gathered, merged, finish_order, written,
                   results_dict, printed>>

\* an exception inside an iteration (item fetch, collate, generate) ends the process
LoopRaise(w) ==
    /\ pc[w] = "loop"
    /\ pos[w] < local_indices[w].end
    /\ pc' = [pc EXCEPT ![w] = "failed"]
    /\ error' = [error EXCEPT ![w] = "LoopError"]
    /\ UNCHANGED <<total_size, world_size, batch_size, dataset, local_indices, pos,
                   gts, rets, sources, audio_paths, coll, gathered, merged,
                   finish_order, violations, written, results_dict, printed, batches>>

\* the loop is exhausted: the rank calls torch.distributed.barrier()
EnterBarrier(w) ==
    /\ pc[w] = "loop"
    /\ pos[w] = local_indices[w].end
    /\ pc' = [pc EXCEPT ![w] = "barrier"]
    /\ coll' = [coll EXCEPT ![1][w] = Entered(<<>>)]
    /\ finish_order' = Append(finish_order, w)
    /\ UNCHANGED <<total_size, world_size, batch_size, dataset, error, local_indices,
                   pos, gts, rets, sources, audio_paths, gathered, merged, violations,
                   written, results_dict, printed, batches>>

\* ---------------------------------------------------------------- barrier and gathers
\* the barrier returns; the rank calls all_gather_object(merged_gts, gts)
PassBarrier(w) ==
    /\ pc[w] = "barrier"
    /\ CollectiveComplete(1)
    /\ pc' = [pc EXCEPT ![w] = "gather_gts"]
    /\ coll' = [coll EXCEPT ![2][w] = Entered(gts[w])]
    /\ UNCHANGED <<total_size, world_size, batch_size, dataset, error, local_indices,
                   pos, gts, rets, sources, audio_paths, gathered, merged,
                   finish_order, violations, written, results_dict, printed, batches>>

GatherGts(w) ==
    /\ pc[w] = "gather_gts"
    /\ CollectiveComplete(2)
    /\ gathered' = [gathered EXCEPT ![w].gts = all_gather_object(2)]
    /\ pc' = [pc EXCEPT ![w] = "gather_sources"]
    /\ coll' = [coll EXCEPT ![3][w] = Entered(sources[w])]
    /\ UNCHANGED <<total_size, world_size, batch_size, dataset, error, local_indices,
                   pos, gts, rets, sources, audio_paths, finish_order, violations,
                   written, results_dict, printed, merged, batches>>

GatherSources(w) ==
    /\ pc[w] = "gather_sources"
    /\ CollectiveComplete(3)
    /\ gathered' = [gathered EXCEPT ![w].sources = all_gather_object(3)]
    /\ pc' = [pc EXCEPT ![w] = "gather_responses"]
    /\ coll' = [coll EXCEPT ![4][w] = Entered(rets[w])]
    /\ UNCHANGED <<total_size, world_size, batch_size, dataset, error, local_indices,
                   pos, gts, rets, sources, audio_paths, finish_order, violations,
                   written, results_dict, printed, merged, batches>>

GatherResponses(w) ==
    /\ pc[w] = "gather_responses"
    /\ CollectiveComplete(4)
    /\ gathered' = [gathered EXCEPT ![w].responses = all_gather_object(4)]
    /\ pc' = [pc EXCEPT ![w] = "gather_audio_paths"]
    /\ coll' = [coll EXCEPT ![5][w] = Entered(audio_paths[w])]
    /\ UNCHANGED <<total_size, world_size, batch_size, dataset, error, local_indices,
                   pos, gts, rets, sources, audio_paths, finish_order, violations,
                   written, results_dict, printed, merged, batches>>

\* the rank test is missing: every rank runs the result block
AnyRank(w) == TRUE

\* get_rank() == 0
IsRank0(w) == w = 0

\* the fourth gather returns; the four lists are flattened; rank 0 goes on to the
\* result block, every other rank to the final barrier
GatherAudioPaths(w) ==
    /\ pc[w] = "gather_audio_paths"
    /\ CollectiveComplete(5)
    /\ gathered' = [gathered EXCEPT ![w].audio_paths = all_gather_object(5)]
    /\ merged' = [merged EXCEPT ![w] =
                    [gts |-> chain(gathered'[w].gts),
                     sources |-> chain(gathered'[w].sources),
                     audio_paths |-> chain(gathered'[w].audio_paths),
                     responses |-> chain(gathered'[w].responses)]]
    /\ IF IsRank0(w)
       THEN /\ pc' = [pc EXCEPT ![w] = "rank0"]
            /\ coll' = coll
       ELSE /\ pc' = [pc EXCEPT ![w] = "final_barrier"]
            /\ coll' = [coll EXCEPT ![6][w] = Entered(<<>>)]
    /\ UNCHANGED <<total_size, world_size, batch_size, dataset, error, local_indices,
                   pos, gts, rets, sources, audio_paths, finish_order, violations,
                   written, results_dict, printed, batches>>

\* ---------------------------------------------------------------- rank-0 block
\* the responses are paired from the end of their list
zip_responses_reversed(g, r, s, a) ==
    [k \in 1..Min(Min(Len(g), Len(r)), Min(Len(s), Len(a))) |->
        [gt |-> g[k], response |-> r[Len(r) + 1 - k], source |-> s[k], audio_path |-> a[k]]]

\* zip() stops at the shortest of its arguments
zip(g, r, s, a) ==
    [k \in 1..Min(Min(Len(g), Len(r)), Min(Len(s), Len(a))) |->
        [gt |-> g[k], response |-> r[k], source |-> s[k], audio_path |-> a[k]]]

\* the group is replaced by the new item instead of being extended
setdefault_overwrite(d, item) ==
    IF \E k \in 1..Len(d) : d[k].source = item.source
    THEN [k \in 1..Len(d) |->
            IF d[k].source = item.source
            THEN [d[k] EXCEPT !.items = <<item>>]
            ELSE d[k]]
    ELSE Append(d, [source |-> item.source, items |-> <<item>>])

\* results_dict.setdefault(source, []).append(item); a dict keeps insertion order
setdefault_append(d, item) ==
    IF \E k \in 1..Len(d) : d[k].source = item.source
    THEN [k \in 1..Len(d) |->
            IF d[k].source = item.source
            THEN [d[k] EXCEPT !.items = Append(@, item)]
            ELSE d[k]]
    ELSE Append(d, [source |-> item.source, items |-> <<item>>])

RECURSIVE group(_, _)
group(d, results) ==
    IF results = <<>> THEN d
    ELSE group(setdefault_append(d, Head(results)), Tail(results))

\* results are zipped, dumped to the results file and grouped by source
Rank0Write(w) ==
    /\ pc[w] = "rank0"
    /\ LET results == zip(merged[w].gts, merged[w].responses,
                          merged[w].sources, merged[w].audio_paths)
       IN  /\ written' = Append(written, [rank |-> w, results |-> results])
           /\ results_dict' = group(<<>>, results)
    /\ pc' = [pc EXCEPT ![w] = "score"]
    /\ UNCHANGED <<total_size, world_size, batch_size, dataset, error, local_indices,
                   pos, gts, rets, sources, audio_paths, coll, gathered, merged,
                   finish_order, violations, printed, batches>>

\* one iteration of "for source in results_dict": the tokenizer is derived from
\* the tag, the group is scored and its line printed; a tag whose split has fewer
\* than two parts raises IndexError
Rank0Score(w) ==
    /\ pc[w] = "score"
    /\ Len(printed) < Len(results_dict)
    /\ LET g == results_dict[Len(printed) + 1]
       IN  IF HasTextLan(g.source)
           THEN /\ printed' = Append(printed, [source |-> g.source,
                                               cnt |-> Len(g.items),
                                               tokenize |-> text_lan(g.source)])
                /\ UNCHANGED <<pc, error>>
           ELSE /\ pc' = [pc EXCEPT ![w] = "failed"]
                /\ error' = [error EXCEPT ![w] = "IndexError"]
                /\ printed' = printed
    /\ UNCHANGED <<total_size, world_size, batch_size, dataset, local_indices, pos,
                   gts, rets, sources, audio_paths, coll, gathered, merged,
                   finish_order, violations, written, results_dict, batches>>

\* every group is scored: rank 0 calls the final barrier
Rank0EnterFinalBarrier(w) ==
    /\ pc[w] = "score"
    /\ Len(printed) = Len(results_dict)
    /\ pc' = [pc EXCEPT ![w] = "final_barrier"]
    /\ coll' = [coll EXCEPT ![6][w] = Entered(<<>>)]
    /\ UNCHANGED <<total_size, world_size, batch_size, dataset, error, local_indices,
                   pos, gts, rets, sources, audio_paths, gathered, merged,
                   finish_order, violations, written, results_dict, printed, batches>>

PassFinalBarrier(w) ==
    /\ pc[w] = "final_barrier"
    /\ CollectiveComplete(6)
    /\ pc' = [pc EXCEPT ![w] = "done"]
    /\ UNCHANGED <<total_size, world_size, batch_size, dataset, error, local_indices,
                   pos, gts, rets, sources, audio_paths, coll, gathered, merged,
                   finish_order, violations, written, results_dict, printed, batches>>

\* ---------------------------------------------------------------- peer failure
\* the collective a rank is blocked in
Waiting(w) ==
    CASE pc[w] = "barrier" -> 1
      [] pc[w] = "gather_gts" -> 2
      [] pc[w] = "gather_sources" -> 3
      [] pc[w] = "gather_responses" -> 4
      [] pc[w] = "gather_audio_paths" -> 5
      [] pc[w] = "final_barrier" -> 6
      [] OTHER -> 0

Dead(r) == pc[r] \in {"failed", "aborted"}

\* the program has no failure path of its own: a rank blocked in a collective
\* that a dead peer never enters leaves it only if the process group's timeout
\* (or the launcher) kills it
CollectiveAbort(w) ==
    /\ Waiting(w) # 0
    /\ ~CollectiveComplete(Waiting(w))
    /\ \E r \in Ranks : Dead(r)
    /\ pc' = [pc EXCEPT ![w] = "aborted"]
    /\ error' = [error EXCEPT ![w] = "Timeout"]
    /\ UNCHANGED <<total_size, world_size, batch_size, dataset, local_indices, pos,
                   gts, rets, sources, audio_paths, coll, gathered, merged,
                   finish_order, violations, written, results_dict, printed, batches>>

\* ---------------------------------------------------------------- specification
Step(w) ==
    \/ InitSampler(w)
    \/ LoopBody(w)
    \/ EnterBarrier(w)
    \/ PassBarrier(w)
    \/ GatherGts(w)
    \/ GatherSources(w)
    \/ GatherResponses(w)
    \/ GatherAudioPaths(w)
    \/ Rank0Write(w)
    \/ Rank0Score(w)
    \/ Rank0EnterFinalBarrier(w)
    \/ PassFinalBarrier(w)

Next ==
    \/ \E w \in Ranks : InitSampler(w)
    \/ \E w \in Ranks : LoopBody(w)
    \/ \E w \in Ranks : EnterBarrier(w)
    \/ \E w \in Ranks : PassBarrier(w)
    \/ \E w \in Ranks : GatherGts(w)
    \/ \E w \in Ranks : GatherSources(w)
    \/ \E w \in Ranks : GatherResponses(w)
    \/ \E w \in Ranks : GatherAudioPaths(w)
    \/ \E w \in Ranks : Rank0Write(w)
    \/ \E w \in Ranks : Rank0Score(w)
    \/ \E w \in Ranks : Rank0EnterFinalBarrier(w)
    \/ \E w \in Ranks : PassFinalBarrier(w)
    \/ \E w \in Ranks : LoopRaise(w)
    \/ \E w \in Ranks : CollectiveAbort(w)

Spec == Init /\ [][Next]_vars

\* the program's own steps are taken whenever they stay possible; failures and
\* timeouts are not
StepOf(w) == w \in Ranks /\ Step(w)

\* the same runs over the smaller set of inputs used for the liveness checks
InitFair ==
    \E n \in 0..FairMaxN, w \in 1..FairMaxW, b \in 1..FairMaxB :
        \E ds \in Datasets(n) : InitRun(n, w, b, ds)

FairSpec == InitFair /\ [][Next]_vars /\ \A w \in 0..(FairMaxW - 1) : WF_vars(StepOf(w))

\* ---------------------------------------------------------------- jsonl datasets
\* a tag without any underscore
custom == <<"c","u","s","t","o","m">>

\* AudioDataset reads each item's 'source' from its jsonl record: any string
JsonlTags == Tags \cup {custom}

InitJsonl ==
    \E n \in 1..JsonlMaxN, w \in 1..JsonlMaxW, b \in 1..JsonlMaxB :
        \E ds \in [1..n -> JsonlTags] : InitRun(n, w, b, ds)

SpecJsonl == InitJsonl /\ [][Next]_vars

\* ---------------------------------------------------------------- shard planning alone
InitPlan ==
    \E n \in 1..PlanMaxN, w \in 1..PlanMaxW :
        InitRun(n, w, 1, [i \in 1..n |-> covost_en_de_dev])

NextPlan == \E w \in Ranks : InitSampler(w)

SpecPlan == InitPlan /\ [][NextPlan]_vars

\* ---------------------------------------------------------------- tokenizer choice alone
\* rank 0 of a one-rank run over one item tagged tag, about to score its groups
InitTag ==
    \E tag \in FormTags :
        LET item == [gt |-> 0, response |-> 0, source |-> tag, audio_path |-> 0]
            m == [gts |-> <<0>>, sources |-> <<tag>>, responses |-> <<0>>,
                  audio_paths |-> <<0>>]
        IN  /\ total_size = 1
            /\ world_size = 1
            /\ batch_size = 1
            /\ dataset = <<tag>>
            /\ pc = [r \in {0} |-> "score"]
            /\ error = [r \in {0} |-> "none"]
            /\ local_indices = [r \in {0} |-> [begin |-> 0, end |-> 1]]
            /\ pos = [r \in {0} |-> 1]
            /\ batches = [r \in {0} |-> <<(<<0>>)>>]
            /\ gts = [r \in {0} |-> <<0>>]
            /\ rets = [r \in {0} |-> <<0>>]
            /\ sources = [r \in {0} |-> <<tag>>]
            /\ audio_paths = [r \in {0} |-> <<0>>]
            /\ coll = [c \in Collectives |->
                         [r \in {0} |->
                            CASE c = 1 -> Entered(<<>>)
                              [] c = 2 -> Entered(<<0>>)
                              [] c = 3 -> Entered(<<tag>>)
                              [] c = 4 -> Entered(<<0>>)
                              [] c = 5 -> Entered(<<0>>)
                              [] OTHER -> NotEntered]]
            /\ gathered = [r \in {0} |-> [gts |-> <<(<<0>>)>>, sources |-> <<(<<tag>>)>>,
                                           responses |-> <<(<<0>>)>>, audio_paths |-> <<(<<0>>)>>]]
            /\ merged = [r \in {0} |-> m]
            /\ finish_order = <<0>>
            /\ violations = {}
            /\ written = <<[rank |-> 0, results |-> <<item>>]>>
            /\ results_dict = <<[source |-> tag, items |-> <<item>>]>>
            /\ printed = <<>>

NextTag == \E w \in Ranks : Rank0Score(w)

SpecTag == InitTag /\ [][NextTag]_vars

\* ================================================================ properties
Planned == \A r \in Ranks : pc[r] # "init"

RangeSize(r) == local_indices[r].end - local_indices[r].begin

InRange(i, r) == local_indices[r].begin <= i /\ i < local_indices[r].end

\* C1: for N > 0 and W > 0 the ranges of ranks 0..W-1 partition [0, N): every
\* index lies in exactly one range, no range holds an index outside [0, N), and
\* any two range sizes differ by at most 1.
C1_PartitionBalanced ==
    (total_size > 0 /\ Planned) =>
        /\ \A i \in 0..(total_size - 1) :
             Cardinality({r \in Ranks : InRange(i, r)}) = 1
        /\ \A r \in Ranks :
             \A i \in local_indices[r].begin..(local_indices[r].end - 1) :
                0 <= i /\ i < total_size
        /\ \A r, q \in Ranks : RangeSize(r) - RangeSize(q) <= 1

C1_Witness ==
    /\ Planned
    /\ world_size >= 3
    /\ total_size > world_size
    /\ total_size % world_size # 0

ClaimedSize(r) == (total_size \div world_size) + (IF r < total_size % world_size THEN 1 ELSE 0)

RECURSIVE ClaimedBegin(_)
ClaimedBegin(r) == IF r = 0 THEN 0 ELSE ClaimedBegin(r - 1) + ClaimedSize(r - 1)

\* C2: rank r's range has size (N div W) + 1 when r < N mod W and N div W
\* otherwise, and begins at the sum of the sizes of ranks 0..r-1; N=10, W=3
\* gives [0,4),[4,7),[7,10) and N=5, W=5 gives [r, r+1) for each rank r.
C2_SizesAndBegins ==
    /\ \A r \in Ranks :
         (total_size > 0 /\ pc[r] # "init") =>
            /\ RangeSize(r) = ClaimedSize(r)
            /\ local_indices[r].begin = ClaimedBegin(r)
    /\ (total_size = 10 /\ world_size = 3 /\ Planned) =>
          local_indices = (0 :> [begin |-> 0, end |-> 4]) @@
                          (1 :> [begin |-> 4, end |-> 7]) @@
                          (2 :> [begin |-> 7, end |-> 10])
    /\ (total_size = 5 /\ world_size = 5 /\ Planned) =>
          \A r \in Ranks : local_indices[r] = [begin |-> r, end |-> r + 1]

C2_Witness ==
    /\ total_size = 10
    /\ world_size = 3
    /\ Planned
    /\ local_indices[1] = [begin |-> 4, end |-> 7]

\* C3: once an inference call has returned a number of predictions different
\* from its batch length, the run aborts: no result file is written and no
\* rank finishes normally.
C3_ContractViolationAborts ==
    violations # {} => (written = <<>> /\ \A w \in Ranks : pc[w] # "done")

LoopCompleted(v) ==
    /\ pc[v] \notin {"init", "loop"}
    /\ error[v] \notin {"AssertionError", "LoopError"}
    /\ pos[v] = local_indices[v].end

\* C4: no rank has started the first gather, and rank 0 has neither persisted
\* nor scored anything, while some rank has not completed its loop.
C4_MergeAfterAllLoops ==
    /\ \A w \in Ranks : coll[2][w].in => \A v \in Ranks : LoopCompleted(v)
    /\ (written # <<>> \/ results_dict # <<>> \/ printed # <<>>) =>
          \A v \in Ranks : LoopCompleted(v)

C4_Witness ==
    /\ world_size >= 2
    /\ total_size >= 2
    /\ \E w \in Ranks : pc[w] = "gather_gts"
    /\ \E v \in Ranks : pc[v] = "barrier"

Flattened(w) == pc[w] \in {"rank0", "score", "final_barrier", "done"}

RECURSIVE LenBefore(_, _)
LenBefore(lst, r) == IF r = 0 THEN 0 ELSE LenBefore(lst, r - 1) + Len(lst[r - 1])

ConcatByRank(m, lst) ==
    /\ Len(m) = LenBefore(lst, world_size)
    /\ \A r \in Ranks : \A k \in 1..Len(lst[r]) : m[LenBefore(lst, r) + k] = lst[r][k]

\* C5: each merged list is the concatenation of the ranks' lists in ascending
\* rank, each rank's list in its own order, whatever order the ranks finished in.
C5_MergedInRankOrder ==
    \A w \in Ranks :
        Flattened(w) =>
            /\ ConcatByRank(merged[w].gts, gts)
            /\ ConcatByRank(merged[w].sources, sources)
            /\ ConcatByRank(merged[w].responses, rets)
            /\ ConcatByRank(merged[w].audio_paths, audio_paths)

C5_Witness ==
    /\ world_size >= 2
    /\ total_size >= 2
    /\ Flattened(0)
    /\ finish_order[1] # 0
    /\ Len(gts[0]) > 0
    /\ Len(gts[1]) > 0

\* C6: when every rank completed and every inference call kept the batch
\* length, the persisted result set has exactly N records and every dataset
\* item appears in it exactly once.
C6_MergedCoversDataset ==
    (written # <<>> /\ violations = {}) =>
        LET results == written[1].results
        IN  /\ Len(results) = total_size
            /\ \A i \in 0..(total_size - 1) :
                 Cardinality({k \in 1..Len(results) : results[k].audio_path = i}) = 1

C6_Witness ==
    /\ written # <<>>
    /\ violations = {}
    /\ world_size >= 2
    /\ total_size >= 3
    /\ total_size % world_size # 0

\* C7: if the gathered lists do not each hold N entries in total, the run
\* fails before any result is persisted or scored.
C7_CountMismatchDetected ==
    \A w \in Ranks :
        (/\ Flattened(w)
         /\ \/ Len(merged[w].gts) # total_size
            \/ Len(merged[w].sources) # total_size
            \/ Len(merged[w].responses) # total_size
            \/ Len(merged[w].audio_paths) # total_size)
        => (written = <<>> /\ printed = <<>>)

\* C8: if some rank raised inside its loop, no rank writes the result file.
C8_NoWriteAfterLoopFailure ==
    (\E w \in Ranks : error[w] = "LoopError") => written = <<>>

C8_Witness ==
    /\ world_size >= 2
    /\ \E w \in Ranks : error[w] = "LoopError"
    /\ pc[0] = "barrier"

\* C9: if some rank raised inside its loop, every rank eventually terminates
\* with a failure instead of staying blocked in a collective.
C9_FailureAbortsAll ==
    (\E w \in Ranks : error[w] = "LoopError") ~> (\A w \in Ranks : Dead(w))

ClaimedPolicy(target) ==
    IF target = <<"j","a">> THEN "ja-mecab"
    ELSE IF target = <<"z","h">> THEN "zh"
    ELSE "13a"

\* C10: a group tagged prefix_source_target_split is scored with the tokenizer
\* its target segment selects: ja-mecab for ja, zh for zh, 13a otherwise;
\* covost_en_de_dev gets 13a and covost_en_zh_dev gets zh.
C10_PolicyFromTarget ==
    \A k \in 1..Len(printed) :
        /\ \A p \in Prefixes, s \in Languages, t \in Languages, sp \in Splits :
             printed[k].source = MakeTag(p, s, t, sp) =>
                printed[k].tokenize = ClaimedPolicy(t)
        /\ printed[k].source = covost_en_de_dev => printed[k].tokenize = "13a"
        /\ printed[k].source = covost_en_zh_dev => printed[k].tokenize = "zh"

C10_Witness ==
    /\ Len(printed) = 1
    /\ printed[1].source = MakeTag(<<"j","a">>, <<"z","h">>, <<"j","a">>, <<"z","h">>)
    /\ printed[1].tokenize = "ja-mecab"

NoUnderscore(s) == \A i \in 1..Len(s) : s[i] # Chr_

DistinctTags(results) == {results[k].source : k \in 1..Len(results)}

C13_EmptyDatasetFailsFirst ==
    total_size <= 0 =>
        \A r \in Ranks :
            /\ pc[r] \in {"init", "failed"}
            /\ pc[r] = "failed" => error[r] = "AssertionError"
            /\ RangeSize(r) = 0
            /\ gts[r] = <<>> /\ rets[r] = <<>> /\ sources[r] = <<>> /\ audio_paths[r] = <<>>
            /\ written = <<>>

C13_Witness ==
    /\ total_size = 0
    /\ world_size >= 2
    /\ \A r \in Ranks : error[r] = "AssertionError"

\* rank 0 has left the scoring loop normally
Scored == pc[0] \in {"final_barrier", "done"}

CountOf(results, tag) == Cardinality({k \in 1..Len(results) : results[k].source = tag})

RECURSIVE SumCnt(_)
SumCnt(lines) == IF lines = <<>> THEN 0 ELSE Head(lines).cnt + SumCnt(Tail(lines))

\* C14: once rank 0 has scored, there is exactly one printed score per
\* distinct tag of the merged results, each with cnt equal to the number of
\* records carrying that tag, and the cnt values sum to the number of records.
C14_OneScorePerGroup ==
    Scored =>
        LET results == written[1].results
        IN  /\ {printed[k].source : k \in 1..Len(printed)} = DistinctTags(results)
            /\ \A j, k \in 1..Len(printed) :
                 printed[j].source = printed[k].source => j = k
            /\ \A k \in 1..Len(printed) :
                 printed[k].cnt = CountOf(results, printed[k].source)
            /\ SumCnt(printed) = Len(results)

C14_Witness ==
    /\ Scored
    /\ Len(printed) = 2
    /\ Len(written[1].results) = 3
    /\ world_size >= 2

\* the indices begin, begin+1, ..., begin+n-1
Ascending(begin, n) == [k \in 1..n |-> begin + k - 1]

\* C15: the batches a rank has processed, laid end to end, are the indices of
\* its range from begin upwards without gap or repeat and never leave
\* [begin, end); every batch has batch_size items except possibly the last one
\* of a finished loop, which is non-empty; a finished loop has visited the
\* whole range.
C15_BatchesCoverShard ==
    \A w \in Ranks :
        pc[w] # "init" /\ error[w] # "AssertionError" =>
            LET seen == chain(batches[w])
                nb == Len(batches[w])
                full == LoopCompleted(w)
            IN  /\ seen = Ascending(local_indices[w].begin, Len(seen))
                /\ local_indices[w].begin + Len(seen) <= local_indices[w].end
                /\ \A k \in 1..nb :
                     /\ Len(batches[w][k]) >= 1
                     /\ Len(batches[w][k]) <= batch_size
                     /\ k < nb => Len(batches[w][k]) = batch_size
                     /\ Len(batches[w][k]) < batch_size =>
                          local_indices[w].begin + Len(seen) = local_indices[w].end
                /\ full => Len(seen) = RangeSize(w)

C15_Witness ==
    \E w \in Ranks :
        /\ LoopCompleted(w)
        /\ batch_size = 2
        /\ Len(batches[w]) = 2
        /\ Len(batches[w][2]) = 1

\* C16: when every inference call kept length and order, every persisted
\* record is aligned: its ground truth, prediction and audio path are those of
\* one dataset item and its group tag is that item's tag.
C16_RecordsAligned ==
    (written # <<>> /\ violations = {}) =>
        \A k \in 1..Len(written[1].results) :
            LET rec == written[1].results[k]
            IN  /\ rec.audio_path \in 0..(total_size - 1)
                /\ rec.gt = rec.audio_path
                /\ rec.response = rec.audio_path
                /\ rec.source = dataset[rec.audio_path + 1]

C16_Witness ==
    /\ written # <<>>
    /\ violations = {}
    /\ world_size >= 2
    /\ Len(written[1].results) >= 2
    /\ written[1].results[1].source # written[1].results[2].source
    /\ finish_order[1] # 0

\* C17: when every rank completed and inference kept the batch lengths, the
\* i-th persisted record (0-based) is the record of dataset item i.
C17_GlobalIndexOrder ==
    (written # <<>> /\ violations = {}) =>
        /\ Len(written[1].results) = total_size
        /\ \A i \in 0..(total_size - 1) : written[1].results[i + 1].audio_path = i

C17_Witness ==
    /\ written # <<>>
    /\ violations = {}
    /\ world_size >= 3
    /\ total_size >= 3
    /\ batch_size >= 2
    /\ finish_order[1] = 2

\* C18: only rank 0 ever is in the result block, so every file on disk was
\* written by rank 0, scores are printed only once rank 0 has entered that
\* block, and a run creates at most one result file.
C18_OnlyRank0Persists ==
    /\ Len(written) <= 1
    /\ \A k \in 1..Len(written) : written[k].rank = 0
    /\ \A w \in Ranks : w # 0 => pc[w] \notin {"rank0", "score"}
    /\ (printed # <<>> \/ results_dict # <<>>) => written # <<>>

C18_Witness ==
    /\ world_size >= 2
    /\ Len(written) = 1
    /\ printed # <<>>
    /\ \A w \in Ranks : pc[w] = "done"

\* C19: a run in which no rank fails ends with every rank past the barrier,
\* the gathers and the final barrier, whatever N > 0 and W > 0 are, also when
\* W > N leaves some ranks an empty shard.
C19_AllRanksTerminate ==
    <>((\E w \in Ranks : error[w] # "none") \/ (\A w \in Ranks : pc[w] = "done"))

C19_Witness ==
    /\ world_size > total_size
    /\ total_size > 0
    /\ \A w \in Ranks : pc[w] = "done"
    /\ \E w \in Ranks : batches[w] = <<>>
====
